---- MODULE Spec2Model ----
(***************************************************************************)
(* Model of the task-DAG runtime of tiny-task-dag: core.ts (Result and     *)
(* Task), run.ts (run and executeTask).  The JavaScript event loop is      *)
(* modelled at the granularity the code depends on: every synchronous      *)
(* stretch of code is one atomic action, promise reactions are jobs in a   *)
(* FIFO microtask queue, and the code a user supplies (callers of run,     *)
(* completions of compute) may run between any two jobs.                   *)
(***************************************************************************)
EXTENDS Integers, Sequences, FiniteSets, TLC

\* ------------------------------------------------------------------ bounds
\* Number of run() calls issued from outside the runtime.
MaxCalls == 2

\* ------------------------------------------------------------------ graphs
\* Task identities are 1..4; deps[n] is the ordered dependency list of n.
\* A diamond: d = 4 depends on b = 2 and c = 3, which both depend on a = 1.
Diamond == << <<>>, <<1>>, <<1>>, <<2, 3>> >>

Graphs == {Diamond}

Nodes == 1..Len(Diamond)

RECURSIVE MaxOf(_)
MaxOf(S) ==
    IF S = {} THEN 0
    ELSE LET x == CHOOSE y \in S : TRUE
             m == MaxOf(S \ {x})
         IN IF x > m THEN x ELSE m

MaxDeps == MaxOf({Len(g[n]) : g \in Graphs, n \in Nodes})

\* A run() invocation is named <<p, i>>: the i-th dependency call made by
\* executeTask(p), or, with p = 0, the i-th call made from outside.
MaxIdx == IF MaxCalls > MaxDeps THEN MaxCalls ELSE MaxDeps
CallIds == (0..Len(Diamond)) \X (1..MaxIdx)

VARIABLES
    deps,           \* task.deps, fixed at construction
    outcome,        \* what the user's compute of each task returns
    latency,        \* whether that compute's promise is resolved on return
    blame,          \* the task a compute names when it calls the exported err
    allArgs,        \* the tasks all() was called with, <<>> if it was not
    taskOf,         \* the task each execution record 1..4 is an execution of
    stackLimit,     \* nested run() calls the engine's call stack has room for
    catcher,        \* the async function that catches a stack overflow
    label,          \* task.label, fixed at construction
    _promise,       \* task._promise is set (it then holds execPromise[n])
    _result,        \* task._result
    execPromise,    \* the promise returned by executeTask(task)
    computePromise, \* the promise returned by task.compute(values)
    runPromise,     \* the promise returned by each run() invocation
    runTask,        \* the task each run() invocation was called on
    runExec,        \* the execution each run() invocation started or joined
    handle,         \* per task: the execution whose promise task._promise is
    contestantFault, \* per contestant: what its Promise.all or it rejected with
    contestant,     \* per task and dependency: the racing async callback
    allRemaining,   \* per contestant: unresolved elements of its Promise.all
    race,           \* per task: the Promise.race of its contestants
    microtasks,     \* the FIFO queue of promise reaction jobs
    computeCalls,   \* number of invocations of each task's compute
    computeArgs,    \* the values each compute was invoked with
    resultWrites,   \* number of assignments to each task._result
    runPath,        \* the branch of run each invocation took
    settleOrder,    \* the tasks in the order their _result was assigned
    firstErr,       \* per task: its first dependency call to resolve to an Err
    calls,          \* number of run() calls issued from outside so far
    lastTrace,      \* the last call of getTrace: its argument and its result
    lastEdges       \* the last call of getEdges: its argument and its result

static == <<deps, outcome, latency, blame, allArgs, taskOf, stackLimit, catcher,
            label>>
dynamic == <<_promise, _result, execPromise, computePromise, runPromise, runTask,
             contestant, allRemaining, race, microtasks, computeCalls,
             computeArgs, resultWrites, runPath, settleOrder,
             firstErr, runExec, handle, contestantFault>>
traced == <<lastTrace, lastEdges>>
vars == <<static, dynamic, calls, traced>>

\* ------------------------------------------------------------ Result model
NoResult == [set |-> FALSE]

ok(value) == [ok |-> TRUE, value |-> value]

err(task, error) == [ok |-> FALSE, error |-> error, errorTask |-> task]

IsOk(r) == r # NoResult /\ r.ok
IsErr(r) == r # NoResult /\ ~r.ok

\* r.value as JavaScript reads it: undefined on an Err.
Undefined == <<0>>
ValueOf(r) == IF IsOk(r) THEN r.value ELSE Undefined

\* ---------------------------------------------------------------- promises
\* What a promise is rejected with: the exception a compute threw, or the
\* RangeError of the engine when the call stack is exhausted.
NoFault == [thrown |-> FALSE]
Thrown(n) == [thrown |-> TRUE, name |-> "Error", by |-> n]
StackOverflow == [thrown |-> TRUE, name |-> "RangeError", by |-> 0]

Unset ==
    [state |-> "unset", value |-> NoResult, fault |-> NoFault, reactions |-> <<>>]
Pending ==
    [state |-> "pending", value |-> NoResult, fault |-> NoFault, reactions |-> <<>>]
Fulfilled(v) ==
    [state |-> "fulfilled", value |-> v, fault |-> NoFault, reactions |-> <<>>]
Rejected(e) ==
    [state |-> "rejected", value |-> NoResult, fault |-> e, reactions |-> <<>>]

Job(type, task, idx) == [type |-> type, task |-> task, idx |-> idx, elem |-> 0]

\* The reaction Promise.all registers on its element elem.
ElemJob(type, task, idx, elem) ==
    [type |-> type, task |-> task, idx |-> idx, elem |-> elem]

Enqueue(s, job) == [s EXCEPT !.microtasks = Append(@, job)]

\* promise.then(job): a reaction on a settled promise is queued at once.
Then(s, f, k, job) ==
    IF s[f][k].state \in {"fulfilled", "rejected"}
    THEN Enqueue(s, job)
    ELSE [s EXCEPT ![f][k].reactions = Append(@, job)]

\* Book-keeping: the first of a task's dependency calls to resolve to an Err.
NoteFirstErr(s, f, k, v) ==
    IF f = "runPromise" /\ k[1] # 0 /\ IsErr(v) /\ s.firstErr[k[1]] = 0
    THEN [s EXCEPT !.firstErr[k[1]] = k[2]]
    ELSE s

\* Resolving a promise with a non-thenable queues its reactions in order.
Fulfill(s, f, k, v) ==
    [NoteFirstErr(s, f, k, v) EXCEPT ![f][k] = Fulfilled(v),
                                     !.microtasks = @ \o s[f][k].reactions]

\* Rejecting a promise queues its reactions in order.
Reject(s, f, k, e) ==
    [s EXCEPT ![f][k] = Rejected(e), !.microtasks = @ \o s[f][k].reactions]

\* ------------------------------------------------------------------- tasks
\* The payload a task's compute fails with (a caller-defined value).
ErrorOf(n) == IF n = 1 THEN "root error" ELSE "failed"

RECURSIVE Flatten(_)
Flatten(values) ==
    IF values = <<>> THEN <<>> ELSE Head(values) \o Flatten(Tail(values))

\* The value a succeeding compute builds from its positional arguments: the
\* task's own identity followed by its arguments in the order received.
Apply(n, values) == <<n>> \o Flatten(values)

\* Mutant of helpersErr: the helper is bound to the first task built, not to
\* the task it is handed to.
helpersErrMisbound(taskNode, error) == err(1, error)

\* helpers.err of task(): the err helper handed to compute, bound to taskNode.
helpersErr(taskNode, error) == err(taskNode, error)

\* taskNode.compute(values): the wrapper calls the user's compute with the
\* helpers.  The user's compute returns ok(...), helpers.err(...), or an Err
\* it built with the exported err(task, error).
compute(n, values) ==
    CASE outcome[n] = "ok" -> ok(Apply(n, values))
      [] outcome[n] = "err" -> helpersErr(n, ErrorOf(n))
      [] outcome[n] = "rawErr" -> err(blame[n], ErrorOf(n))
      [] outcome[n] = "all" -> ok(values)

\* Mutant of computed: a compute that throws is turned into an Err of its
\* task at the boundary.
computedFaultAsErr(n, values) ==
    IF outcome[n] = "throw"
    THEN Fulfilled(err(n, ErrorOf(n)))
    ELSE Fulfilled(compute(n, values))

\* The promise the user's async compute returns, once it is settled: an
\* async compute that throws returns a rejected promise.  A compute that is
\* not an async function and throws ("throwSync") returns no promise at all,
\* the exception unwinds into executeTask.
computed(n, values) ==
    IF outcome[n] = "throw"
    THEN Rejected(Thrown(n))
    ELSE Fulfilled(compute(n, values))

\* Mutant of all: the combined task lists the tasks by identity instead of
\* in the order given.
allSorted(tasks) ==
    [deps |-> IF Len(tasks) = 2 /\ tasks[1] > tasks[2]
              THEN <<tasks[2], tasks[1]>> ELSE tasks,
     compute |-> "all"]

\* all(id, tasks): a task whose deps are tasks and whose compute returns ok
\* of the values it receives, as one tuple.
all(tasks) == [deps |-> tasks, compute |-> "all"]

\* ----------------------------------------------------------------- runtime
\* The mutable state as one record, threaded through the synchronous code.
State ==
    [_promise |-> _promise, _result |-> _result, execPromise |-> execPromise,
     computePromise |-> computePromise, runPromise |-> runPromise,
     runTask |-> runTask, contestant |-> contestant,
     allRemaining |-> allRemaining, race |-> race, microtasks |-> microtasks,
     computeCalls |-> computeCalls, computeArgs |-> computeArgs,
     resultWrites |-> resultWrites, runPath |-> runPath,
     settleOrder |-> settleOrder, firstErr |-> firstErr,
     runExec |-> runExec, handle |-> handle,
     contestantFault |-> contestantFault, depth |-> 0]

Install(t) ==
    /\ _promise' = t._promise
    /\ _result' = t._result
    /\ execPromise' = t.execPromise
    /\ computePromise' = t.computePromise
    /\ runPromise' = t.runPromise
    /\ runTask' = t.runTask
    /\ contestant' = t.contestant
    /\ allRemaining' = t.allRemaining
    /\ race' = t.race
    /\ microtasks' = t.microtasks
    /\ computeCalls' = t.computeCalls
    /\ computeArgs' = t.computeArgs
    /\ resultWrites' = t.resultWrites
    /\ runPath' = t.runPath
    /\ settleOrder' = t.settleOrder
    /\ firstErr' = t.firstErr
    /\ runExec' = t.runExec
    /\ handle' = t.handle
    /\ contestantFault' = t.contestantFault

\* `await task.compute(values)`: compute is invoked synchronously and the
\* caller suspends on the promise it returns.
invokeCompute(s, n, values) ==
    LET s0 == [s EXCEPT !.computeCalls[n] = @ + 1,
                        !.computeArgs[n] = values]
        s1 == [s0 EXCEPT !.computePromise[n] =
                            IF latency[n] = "immediate"
                            THEN computed(n, values)
                            ELSE Pending]
    IN IF outcome[n] = "throwSync"
       THEN Reject(s0, "execPromise", n, Thrown(n))
       ELSE Then(s1, "computePromise", n, Job("computeCont", n, 0))

\* Mutant of CachedErrorIdx: executeTask skips the check of cached errors.
CachedErrorIgnored(s, n) == 0

\* The first dependency, in declaration order, whose _result is an Err.
CachedErrorIdx(s, n) ==
    LET failed == {i \in 1..Len(deps[n]) : IsErr(s._result[deps[n][i]])}
    IN IF failed = {} THEN 0 ELSE CHOOSE i \in failed : \A j \in failed : i <= j

\* The contestants of the race: each async callback runs up to its
\* `await depPromise`, in declaration order.
RECURSIVE startContestants(_, _, _)
startContestants(s, n, i) ==
    IF i > Len(deps[n]) THEN s
    ELSE startContestants(
             Then([s EXCEPT !.contestant[n][i] = "waitDep"],
                  "runPromise", <<n, i>>, Job("contestant", n, i)),
             n, i + 1)

RECURSIVE run(_, _, _)
RECURSIVE executeTask(_, _)
RECURSIVE launchDeps(_, _, _)

\* Mutant of hasResult: run has no synchronous fast path, a settled task is
\* handled like one in flight.
hasResultNever(s, n) == FALSE

\* `if (task._result)`: the synchronous cache hit.
hasResult(s, n) == s._result[n] # NoResult

\* Mutant of inFlight: run never looks at task._promise.
inFlightIgnored(s, n) == FALSE

\* `if (task._promise)`: an execution of the task is already under way.
inFlight(s, n) == s._promise[n]

\* Mutant of launchDeps: only the first dependency is started with the task,
\* the others are left for later.
launchDepsFirstOnly(s, n, i) ==
    IF i > 1 \/ Len(deps[n]) = 0 THEN s
    ELSE run(s, <<n, 1>>, deps[n][1])

\* task.deps.map(dep => run(dep)): the synchronous part of every run(dep),
\* one after the other.
launchDeps(s, n, i) ==
    IF i > Len(deps[n]) THEN s
    ELSE launchDeps(run(s, <<n, i>>, deps[n][i]), n, i + 1)

\* executeTask(task) up to its first suspension, as execution record n.  An
\* exception in the body of an async function rejects the promise it returns.
executeTask(s, n) ==
    LET s0 == [s EXCEPT !.execPromise[n] = Pending]
    IN IF s0.depth >= stackLimit
       THEN Reject(s0, "execPromise", n, StackOverflow)
       ELSE IF Len(deps[n]) = 0 THEN invokeCompute(s0, n, <<>>)
       ELSE IF CachedErrorIdx(s0, n) # 0
       THEN Fulfill(s0, "execPromise", n,
                    s0._result[deps[n][CachedErrorIdx(s0, n)]])
       ELSE LET s1 == launchDeps(s0, n, 1)
                s2 == startContestants(s1, n, 1)
            IN Then([s2 EXCEPT !.race[n] = Pending],
                    "race", n, Job("raceCont", n, 0))

\* The record of a new execution of task n: the first one not yet used (a
\* task of an acyclic graph has one record, its own).
NewExec(s, n) ==
    LET fresh == {e \in Nodes : taskOf[e] = n /\ s.execPromise[e].state = "unset"}
    IN IF fresh = {} THEN n ELSE CHOOSE e \in fresh : \A f \in fresh : e <= f

\* Mutant of runBody: task._promise is marked before the task is executed,
\* so that a task entered again through a cycle joins its own execution.
runBodyMarksFirst(s, c, n) ==
    LET s0 == [s EXCEPT !.runTask[c] = n, !.runPromise[c] = Pending]
    IN IF hasResult(s0, n)
       THEN Fulfill([s0 EXCEPT !.runPath[c] = "cached"],
                    "runPromise", c, s0._result[n])
       ELSE IF inFlight(s0, n)
       THEN Enqueue([s0 EXCEPT !.runPath[c] = "joined",
                               !.runExec[c] = s0.handle[n]],
                    Job("thenable", c[1], c[2]))
       ELSE LET e == NewExec(s0, n)
                s1 == executeTask([s0 EXCEPT !.runPath[c] = "started",
                                             !.runExec[c] = e,
                                             !._promise[n] = TRUE,
                                             !.handle[n] = e,
                                             !.execPromise[e] = Pending], e)
            IN Then(s1, "execPromise", e, Job("runCont", c[1], c[2]))

\* The body of run(task), invocation c, up to its first suspension.  The
\* call stack is one frame deeper inside it; with no room left for the call
\* of executeTask, the RangeError is caught either by executeTask (its
\* promise is rejected) or by run, before task._promise is assigned.
runBody(s, c, n) ==
    LET s0 == [s EXCEPT !.runTask[c] = n, !.runPromise[c] = Pending]
    IN IF hasResult(s0, n)
       THEN Fulfill([s0 EXCEPT !.runPath[c] = "cached"],
                    "runPromise", c, s0._result[n])
       ELSE IF inFlight(s0, n)
       THEN Enqueue([s0 EXCEPT !.runPath[c] = "joined",
                               !.runExec[c] = s0.handle[n]],
                    Job("thenable", c[1], c[2]))
       ELSE IF s0.depth >= stackLimit /\ catcher = "run"
       THEN Reject([s0 EXCEPT !.runPath[c] = "overflow"],
                   "runPromise", c, StackOverflow)
       ELSE LET e == NewExec(s0, n)
                s1 == executeTask([s0 EXCEPT !.runPath[c] = "started",
                                             !.runExec[c] = e], e)
                s2 == [s1 EXCEPT !._promise[n] = TRUE, !.handle[n] = e]
            IN Then(s2, "execPromise", e, Job("runCont", c[1], c[2]))

\* run(task), called as invocation c.
run(s, c, n) ==
    [runBody([s EXCEPT !.depth = @ + 1], c, n) EXCEPT !.depth = s.depth]

\* ------------------------------------------------------------ continuations
\* Mutant of runCont: the in-flight handle is dropped once the result is
\* cached.
runContDropsPromise(s, c) ==
    LET n == s.runTask[c]
        result == s.execPromise[n].value
        s1 == [s EXCEPT !._result[n] = result, !.resultWrites[n] = @ + 1,
                        !.settleOrder = Append(@, n), !._promise[n] = FALSE]
    IN Fulfill(s1, "runPromise", c, result)

\* Mutant of runCont: only successes are cached, a failed task is left to be
\* executed again.
runContForgetsErr(s, c) ==
    LET n == s.runTask[c]
        result == s.execPromise[n].value
        s1 == IF IsOk(result)
              THEN [s EXCEPT !._result[n] = result, !.resultWrites[n] = @ + 1,
                             !.settleOrder = Append(@, n)]
              ELSE [s EXCEPT !._promise[n] = FALSE]
    IN Fulfill(s1, "runPromise", c, result)

\* run, after `await task._promise`: cache the result and return it.  When
\* the promise is rejected the await throws, and run rejects its own promise
\* with the same exception without assigning task._result.
runCont(s, c) ==
    LET n == s.runTask[c]
        p == s.execPromise[s.runExec[c]]
        s1 == [s EXCEPT !._result[n] = p.value, !.resultWrites[n] = @ + 1,
                        !.settleOrder = Append(@, n)]
    IN IF p.state = "rejected"
       THEN Reject(s, "runPromise", c, p.fault)
       ELSE Fulfill(s1, "runPromise", c, p.value)

\* Mutant of thenable: the promise of a call that returned task._promise is
\* never subscribed to it.
thenableLost(s, c) == s

\* run, after `return task._promise`: the promise of this invocation is
\* resolved with a promise, so a job subscribes it to task._promise.
thenable(s, c) ==
    Then(s, "execPromise", s.runExec[c], Job("resolveRun", c[1], c[2]))

\* Mutant of resolveRun: a call that found the task in flight does not share
\* the execution's Result, it invokes the task's compute again for its own.
resolveRunRecomputes(s, c) ==
    LET n == s.runTask[c]
    IN Fulfill([s EXCEPT !.computeCalls[n] = @ + 1],
               "runPromise", c, compute(n, s.computeArgs[n]))

\* The promise of a call that returned task._promise settles as it did.
resolveRun(s, c) ==
    LET p == s.execPromise[s.runExec[c]]
    IN IF p.state = "rejected"
       THEN Reject(s, "runPromise", c, p.fault)
       ELSE Fulfill(s, "runPromise", c, p.value)

\* executeTask, after `await task.compute(...)`: return compute's Result.
computeCont(s, n) ==
    LET p == s.computePromise[n]
    IN IF p.state = "rejected"
       THEN Reject(s, "execPromise", n, p.fault)
       ELSE Fulfill(s, "execPromise", n, p.value)

\* Promise.all(depPromises), called by contestant i of n: one reaction per
\* dependency promise, in declaration order.
RECURSIVE promiseAll(_, _, _, _)
promiseAll(s, n, i, j) ==
    IF j > Len(deps[n]) THEN s
    ELSE promiseAll(Then(s, "runPromise", <<n, j>>,
                         ElemJob("allElement", n, i, j)),
                    n, i, j + 1)

\* Mutant of contestantCont: every contestant waits for all dependencies
\* before it looks at its own result (a plain Promise.all, no fail-fast).
contestantContWaitsForAll(s, n, i) ==
    promiseAll([s EXCEPT !.contestant[n][i] = "waitAll",
                         !.allRemaining[n][i] = Len(deps[n])],
               n, i, 1)

\* A contestant, after `await depPromise`: an Err is returned at once,
\* otherwise the contestant waits for all the dependencies.
contestantCont(s, n, i) ==
    IF s.runPromise[<<n, i>>].state = "rejected"
    THEN Enqueue([s EXCEPT !.contestant[n][i] = "rejected",
                           !.contestantFault[n][i] = s.runPromise[<<n, i>>].fault],
                 Job("raceReaction", n, i))
    ELSE IF ~IsOk(s.runPromise[<<n, i>>].value)
    THEN Enqueue([s EXCEPT !.contestant[n][i] = "error"],
                 Job("raceReaction", n, i))
    ELSE promiseAll([s EXCEPT !.contestant[n][i] = "waitAll",
                              !.allRemaining[n][i] = Len(deps[n])],
                    n, i, 1)

\* Mutant of allElement: the contestant whose Promise.all is complete settles
\* the race at once, ahead of the jobs already queued.
allElementEager(s, n, i) ==
    LET s1 == [s EXCEPT !.allRemaining[n][i] = @ - 1]
    IN IF s1.allRemaining[n][i] = 0
       THEN IF s1.race[n].state = "pending"
            THEN Fulfill([s1 EXCEPT !.contestant[n][i] = "success"],
                         "race", n, [type |-> "success", idx |-> i])
            ELSE s1
       ELSE s1

\* One element of contestant i's Promise.all resolved; the last one resolves
\* the Promise.all, which resumes the contestant.
allElement(s, n, i) ==
    LET s1 == [s EXCEPT !.allRemaining[n][i] = @ - 1]
    IN IF s.allRemaining[n][i] = 0 THEN s
       ELSE IF s1.allRemaining[n][i] = 0
       THEN Enqueue(s1, Job("contestantAll", n, i))
       ELSE s1

\* Element j of contestant i's Promise.all is rejected: the first rejection
\* rejects the Promise.all, which resumes the contestant.
allElementRejected(s, n, i, j) ==
    IF s.allRemaining[n][i] = 0 THEN s
    ELSE Enqueue([s EXCEPT !.allRemaining[n][i] = 0,
                           !.contestantFault[n][i] = s.runPromise[<<n, j>>].fault],
                 Job("contestantAll", n, i))

\* A contestant, after `await Promise.all(depPromises)`: return success, or
\* throw what the Promise.all was rejected with.
contestantAll(s, n, i) ==
    Enqueue([s EXCEPT !.contestant[n][i] =
                          IF s.contestantFault[n][i] = NoFault
                          THEN "success" ELSE "rejected"],
            Job("raceReaction", n, i))

\* Mutant of raceReaction: a contestant that resolves later replaces the
\* outcome of the race.
raceReactionLastWins(s, n, i) ==
    Fulfill(s, "race", n, [type |-> s.contestant[n][i], idx |-> i])

\* Promise.race: the first contestant to settle settles the race.
raceReaction(s, n, i) ==
    IF s.race[n].state # "pending" THEN s
    ELSE IF s.contestant[n][i] = "rejected"
    THEN Reject(s, "race", n, s.contestantFault[n][i])
    ELSE Fulfill(s, "race", n, [type |-> s.contestant[n][i], idx |-> i])

\* Mutant of AllResults: the Results are taken in the opposite order.
AllResultsReversed(s, n) ==
    [j \in 1..Len(deps[n]) |-> s.runPromise[<<n, Len(deps[n]) + 1 - j>>].value]

\* The Results Promise.all resolved with, in declaration order.
AllResults(s, n) == [j \in 1..Len(deps[n]) |-> s.runPromise[<<n, j>>].value]

\* Mutant of winnerError: the forwarding task wraps the error as its own.
winnerErrorRetagged(s, n, winner) ==
    err(n, s.runPromise[<<n, winner.idx>>].value.error)

\* winner.error: the Err the winning contestant read from its dependency.
winnerError(s, n, winner) == s.runPromise[<<n, winner.idx>>].value

\* Mutant of raceCont: a task that fails fast cancels the dependencies still
\* in flight, whose executions then resolve nothing.
raceContCancelsDeps(s, n) ==
    LET winner == s.race[n].value
    IN IF winner.type = "error"
       THEN Fulfill([s EXCEPT !.execPromise =
                        [m \in Nodes |->
                            IF /\ \E i \in 1..Len(deps[n]) : deps[n][i] = m
                               /\ s.execPromise[m].state = "pending"
                            THEN [s.execPromise[m] EXCEPT !.reactions = <<>>]
                            ELSE s.execPromise[m]]],
                    "execPromise", n, winnerError(s, n, winner))
       ELSE LET allResults == AllResults(s, n)
                depValues == [j \in 1..Len(deps[n]) |-> ValueOf(allResults[j])]
            IN invokeCompute(s, n, depValues)

\* executeTask, after `await Promise.race(...)`; a rejected race makes the
\* await throw.
raceCont(s, n) ==
    LET winner == s.race[n].value
    IN IF s.race[n].state = "rejected"
       THEN Reject(s, "execPromise", n, s.race[n].fault)
       ELSE IF winner.type = "error"
       THEN Fulfill(s, "execPromise", n, winnerError(s, n, winner))
       ELSE LET allResults == AllResults(s, n)
                depValues == [j \in 1..Len(deps[n]) |-> ValueOf(allResults[j])]
            IN invokeCompute(s, n, depValues)

RunJob(s, job) ==
    CASE job.type = "runCont" -> runCont(s, <<job.task, job.idx>>)
      [] job.type = "thenable" -> thenable(s, <<job.task, job.idx>>)
      [] job.type = "resolveRun" -> resolveRun(s, <<job.task, job.idx>>)
      [] job.type = "computeCont" -> computeCont(s, job.task)
      [] job.type = "contestant" -> contestantCont(s, job.task, job.idx)
      [] job.type = "allElement" ->
            IF s.runPromise[<<job.task, job.elem>>].state = "rejected"
            THEN allElementRejected(s, job.task, job.idx, job.elem)
            ELSE allElement(s, job.task, job.idx)
      [] job.type = "contestantAll" -> contestantAll(s, job.task, job.idx)
      [] job.type = "raceReaction" -> raceReaction(s, job.task, job.idx)
      [] job.type = "raceCont" -> raceCont(s, job.task)

\* ------------------------------------------------------------------- trace
\* Mutant of _id: tasks are told apart by their label.
_idIsLabel(t) == label[t]

\* t._id: the Symbol made at construction, one per task whatever its label.
_id(t) == t

RECURSIVE traceTraverse(_, _)
RECURSIVE traceDeps(_, _, _)

\* `for (const dep of t.deps) traverse(dep)` of getTrace, from dependency i.
traceDeps(st, t, i) ==
    IF i > Len(deps[t]) THEN st
    ELSE traceDeps(traceTraverse(st, deps[t][i]), t, i + 1)

\* traverse(t) of getTrace: skip a task already visited, traverse the
\* dependencies, then add the label of t.
traceTraverse(st, t) ==
    IF _id(t) \in st.visited THEN st
    ELSE LET st1 == traceDeps([st EXCEPT !.visited = @ \cup {_id(t)}], t, 1)
         IN [st1 EXCEPT !.path = Append(@, label[t])]

getTrace(task) == traceTraverse([visited |-> {}, path |-> <<>>], task).path

RECURSIVE edgesTraverse(_, _)
RECURSIVE edgesDeps(_, _, _)

\* The loop of getEdges over t.deps, from dependency i: add the edge from the
\* dependency to t, then traverse the dependency.
edgesDeps(st, t, i) ==
    IF i > Len(deps[t]) THEN st
    ELSE edgesDeps(
             edgesTraverse([st EXCEPT !.edges =
                                Append(@, <<label[deps[t][i]], label[t]>>)],
                           deps[t][i]),
             t, i + 1)

\* Mutant of edgesTraverse: a task is expanded every time it is reached.
edgesTraverseAgain(st, t) == edgesDeps(st, t, 1)

\* traverse(t) of getEdges: skip a task already visited, otherwise expand it.
edgesTraverse(st, t) ==
    IF _id(t) \in st.visited THEN st
    ELSE edgesDeps([st EXCEPT !.visited = @ \cup {_id(t)}], t, 1)

getEdges(task) == edgesTraverse([visited |-> {}, edges |-> <<>>], task).edges

\* ------------------------------------------------------------------ actions
\* The labels of the tasks of the tests.
Names == <<"a", "b", "c", "d">>

\* An acyclic graph: every task has its one execution record, and the call
\* stack has room for the deepest chain of dependencies.
Acyclic ==
    /\ taskOf = [n \in Nodes |-> n]
    /\ stackLimit = Len(Diamond) + 1
    /\ catcher = "executeTask"

\* Mutant of InitDynamic: task() is eager, building a task without
\* dependencies invokes its compute.
InitDynamicEager ==
    /\ _promise = [n \in Nodes |-> FALSE]
    /\ _result = [n \in Nodes |-> NoResult]
    /\ execPromise = [n \in Nodes |-> Unset]
    /\ computePromise = [n \in Nodes |-> IF Len(Diamond[n]) = 0 THEN Pending ELSE Unset]
    /\ runPromise = [c \in CallIds |-> Unset]
    /\ runTask = [c \in CallIds |-> 0]
    /\ contestant = [n \in Nodes |-> [i \in 1..MaxDeps |-> "none"]]
    /\ allRemaining = [n \in Nodes |-> [i \in 1..MaxDeps |-> 0]]
    /\ race = [n \in Nodes |-> Unset]
    /\ microtasks = <<>>
    /\ computeCalls = [n \in Nodes |-> IF Len(Diamond[n]) = 0 THEN 1 ELSE 0]
    /\ computeArgs = [n \in Nodes |-> <<>>]
    /\ resultWrites = [n \in Nodes |-> 0]
    /\ runPath = [c \in CallIds |-> "none"]
    /\ settleOrder = <<>>
    /\ firstErr = [n \in Nodes |-> 0]
    /\ runExec = [c \in CallIds |-> 0]
    /\ handle = [n \in Nodes |-> 0]
    /\ contestantFault = [n \in Nodes |-> [i \in 1..MaxDeps |-> NoFault]]
    /\ calls = 0
    /\ lastTrace = [task |-> 0, path |-> <<>>]
    /\ lastEdges = [task |-> 0, edges |-> <<>>]

\* A graph just built: task() stores label, deps and compute and runs nothing.
InitDynamic ==
    /\ _promise = [n \in Nodes |-> FALSE]
    /\ _result = [n \in Nodes |-> NoResult]
    /\ execPromise = [n \in Nodes |-> Unset]
    /\ computePromise = [n \in Nodes |-> Unset]
    /\ runPromise = [c \in CallIds |-> Unset]
    /\ runTask = [c \in CallIds |-> 0]
    /\ contestant = [n \in Nodes |-> [i \in 1..MaxDeps |-> "none"]]
    /\ allRemaining = [n \in Nodes |-> [i \in 1..MaxDeps |-> 0]]
    /\ race = [n \in Nodes |-> Unset]
    /\ microtasks = <<>>
    /\ computeCalls = [n \in Nodes |-> 0]
    /\ computeArgs = [n \in Nodes |-> <<>>]
    /\ resultWrites = [n \in Nodes |-> 0]
    /\ runPath = [c \in CallIds |-> "none"]
    /\ settleOrder = <<>>
    /\ firstErr = [n \in Nodes |-> 0]
    /\ runExec = [c \in CallIds |-> 0]
    /\ handle = [n \in Nodes |-> 0]
    /\ contestantFault = [n \in Nodes |-> [i \in 1..MaxDeps |-> NoFault]]
    /\ calls = 0
    /\ lastTrace = [task |-> 0, path |-> <<>>]
    /\ lastEdges = [task |-> 0, edges |-> <<>>]

\* The computes whose promise is still pending when compute returns: none of
\* them, one of them, or all of them.
DeferredSets == {{}, Nodes} \cup {{n} : n \in Nodes}

\* The graph is built (task() runs nothing); every compute builds its errors
\* with the err helper it is handed.
Init ==
    /\ deps \in Graphs
    /\ outcome \in [Nodes -> {"ok", "err"}]
    /\ latency \in {[n \in Nodes |-> IF n \in S THEN "deferred" ELSE "immediate"] :
                       S \in DeferredSets}
    /\ blame = [n \in Nodes |-> n]
    /\ allArgs = <<>>
    /\ Acyclic
    /\ label = Names
    /\ InitDynamic

\* A caller outside the runtime calls run(n).
Execute(n) ==
    /\ calls < MaxCalls
    /\ taskOf[n] = n
    /\ calls' = calls + 1
    /\ Install(run(State, <<0, calls + 1>>, n))
    /\ UNCHANGED <<static, traced>>

\* The event loop runs the next promise reaction job.
Microtask ==
    /\ microtasks # <<>>
    /\ Install(RunJob([State EXCEPT !.microtasks = Tail(@)], Head(microtasks)))
    /\ UNCHANGED <<static, calls, traced>>

\* The user's deferred compute of n resolves its promise; a compute that
\* hangs (latency "never") returned a promise nothing ever resolves.
ComputeDone(n) ==
    /\ computePromise[n].state = "pending"
    /\ latency[n] # "never"
    /\ LET p == computed(n, computeArgs[n])
       IN Install(IF p.state = "rejected"
                  THEN Reject(State, "computePromise", n, p.fault)
                  ELSE Fulfill(State, "computePromise", n, p.value))
    /\ UNCHANGED <<static, calls, traced>>

Next ==
    \/ \E n \in Nodes : Execute(n)
    \/ Microtask
    \/ \E n \in Nodes : ComputeDone(n)

Spec == Init /\ [][Next]_vars

\* The same graph with computes that may also build their Err with the
\* exported err(task, error), naming the task blame[n].
InitRaw ==
    /\ deps \in Graphs
    /\ outcome \in [Nodes -> {"ok", "err", "rawErr"}]
    /\ latency \in {[n \in Nodes |-> IF n \in S THEN "deferred" ELSE "immediate"] :
                       S \in {{}, Nodes}}
    /\ blame \in {[n \in Nodes |-> m] : m \in {1, Len(Diamond)}}
    /\ allArgs = <<>>
    /\ Acyclic
    /\ label = Names
    /\ InitDynamic

SpecRaw == InitRaw /\ [][Next]_vars

\* The same graph where the computes all resolve on return or all resolve
\* later, and every compute does resolve.
InitFair ==
    /\ deps \in Graphs
    /\ outcome \in [Nodes -> {"ok", "err"}]
    /\ latency \in {[n \in Nodes |-> l] : l \in {"immediate", "deferred"}}
    /\ blame = [n \in Nodes |-> n]
    /\ allArgs = <<>>
    /\ Acyclic
    /\ label = Names
    /\ InitDynamic

\* The event loop runs every queued job, and a compute that does not hang
\* resolves its promise; nothing obliges a caller to call run.
Fairness ==
    /\ WF_vars(Microtask)
    /\ \A n \in Nodes : WF_vars(ComputeDone(n))

SpecFair == InitFair /\ [][Next]_vars /\ Fairness

\* The diamond with its top built by all() from the two middle tasks, given
\* in either order; the compute of all() is an async function without await,
\* whose promise is resolved on return.
InitAll ==
    /\ allArgs \in {<<2, 3>>, <<3, 2>>}
    /\ Acyclic
    /\ label = Names
    /\ deps = [n \in Nodes |-> IF n = Len(Diamond) THEN all(allArgs).deps
                                                  ELSE Diamond[n]]
    /\ \E o \in [Nodes \ {Len(Diamond)} -> {"ok", "err"}] :
           outcome = [n \in Nodes |-> IF n = Len(Diamond) THEN all(allArgs).compute
                                                        ELSE o[n]]
    /\ latency \in {[n \in Nodes |-> IF n \in S \ {Len(Diamond)}
                                     THEN "deferred" ELSE "immediate"] :
                       S \in DeferredSets}
    /\ blame = [n \in Nodes |-> n]
    /\ InitDynamic

SpecAll == InitAll /\ [][Next]_vars

\* Two tasks without dependencies, a = 1 and b = 2, and two tasks that each
\* depend on both, in that order.
Twins == << <<>>, <<>>, <<1, 2>>, <<1, 2>> >>

InitTwins ==
    /\ deps = Twins
    /\ outcome \in [Nodes -> {"ok", "err"}]
    /\ latency \in {[n \in Nodes |-> IF n \in S THEN "deferred" ELSE "immediate"] :
                       S \in DeferredSets}
    /\ blame = [n \in Nodes |-> n]
    /\ allArgs = <<>>
    /\ Acyclic
    /\ label = Names
    /\ InitDynamic

SpecTwins == InitTwins /\ [][Next]_vars

\* The same graph where the compute of exactly one task hangs.
InitHung ==
    /\ deps \in Graphs
    /\ outcome \in [Nodes -> {"ok", "err"}]
    /\ latency \in {[n \in Nodes |-> IF n = h THEN "never" ELSE l] :
                       h \in Nodes, l \in {"immediate", "deferred"}}
    /\ blame = [n \in Nodes |-> n]
    /\ allArgs = <<>>
    /\ Acyclic
    /\ label = Names
    /\ InitDynamic

SpecHung == InitHung /\ [][Next]_vars /\ Fairness

\* The same graph where a compute may throw instead of returning a Result:
\* any mix of Ok, Err and async computes that throw, or one compute that is
\* not an async function and throws when it is called.
ThrowOutcomes ==
    [Nodes -> {"ok", "err", "throw"}]
        \cup {[n \in Nodes |-> IF n = x THEN "throwSync" ELSE "ok"] : x \in Nodes}

InitThrow ==
    /\ deps \in Graphs
    /\ outcome \in ThrowOutcomes
    /\ latency \in {[n \in Nodes |-> IF n \in S THEN "deferred" ELSE "immediate"] :
                       S \in {{}, Nodes}}
    /\ blame = [n \in Nodes |-> n]
    /\ allArgs = <<>>
    /\ Acyclic
    /\ label = Names
    /\ InitDynamic

SpecThrow == InitThrow /\ [][Next]_vars

\* Graphs with a cycle, which deps allows once it is mutated after
\* construction.  Every execution of a task has its own promises, so a task
\* that is entered again while it is being executed needs as many execution
\* records as it has executions: taskOf[e] is the task record e belongs to, a
\* task is named by its first record, and deps[e] are the deps of taskOf[e].
\* SelfLoop: task 1 depends on itself and on task 4, which has no deps.
SelfLoop ==
    [taskOf |-> <<1, 1, 1, 4>>, deps |-> << <<1, 4>>, <<1, 4>>, <<1, 4>>, <<>> >>]

\* The same with the dependency that is not on the cycle declared first.
LoopLast ==
    [taskOf |-> <<1, 1, 1, 4>>, deps |-> << <<4, 1>>, <<4, 1>>, <<4, 1>>, <<>> >>]

\* TwoCycle: tasks 1 and 2 depend on each other.
TwoCycle ==
    [taskOf |-> <<1, 2, 1, 2>>, deps |-> << <<2>>, <<1>>, <<2>>, <<1>> >>]

Cyclic == {SelfLoop, LoopLast, TwoCycle}

\* The nested run() calls the stack may have room for: the recursion is cut
\* short at every depth the execution records can represent.
StackLimits == 1..Cardinality({e \in Nodes : SelfLoop.taskOf[e] = 1})

InitCycle ==
    /\ \E g \in Cyclic : taskOf = g.taskOf /\ deps = g.deps
    /\ outcome \in {[n \in Nodes |-> IF Len(deps[n]) = 0 THEN o ELSE "ok"] :
                       o \in {"ok", "err"}}
    /\ latency \in {[n \in Nodes |-> l] : l \in {"immediate", "deferred"}}
    /\ blame = [n \in Nodes |-> n]
    /\ allArgs = <<>>
    /\ stackLimit \in StackLimits
    /\ label = Names
    /\ catcher \in {"run", "executeTask"}
    /\ InitDynamic

SpecCycle == InitCycle /\ [][Next]_vars

\* Graphs to trace: the diamond, two tasks sharing two dependencies, a chain,
\* and a diamond whose shared task has a dependency of its own.
Chain == << <<>>, <<1>>, <<2>>, <<3>> >>
Shared == << <<>>, <<1>>, <<2>>, <<2, 3>> >>
TraceGraphs == {Diamond, Twins, Chain, Shared}

\* Labels are free strings: tasks may share one.
Labels == [Nodes -> {"a", "b"}] \cup {Names}

InitTrace ==
    /\ deps \in TraceGraphs
    /\ label \in Labels
    /\ outcome = [n \in Nodes |-> "ok"]
    /\ latency = [n \in Nodes |-> "immediate"]
    /\ blame = [n \in Nodes |-> n]
    /\ allArgs = <<>>
    /\ taskOf = [n \in Nodes |-> n]
    /\ stackLimit = Len(Diamond) + 1
    /\ catcher = "executeTask"
    /\ InitDynamic

\* A caller calls getTrace(n).
GetTrace(n) ==
    /\ lastTrace' = [task |-> n, path |-> getTrace(n)]
    /\ UNCHANGED <<static, dynamic, calls, lastEdges>>

\* A caller calls getEdges(n).
GetEdges(n) ==
    /\ lastEdges' = [task |-> n, edges |-> getEdges(n)]
    /\ UNCHANGED <<static, dynamic, calls, lastTrace>>

NextTrace ==
    \/ \E n \in Nodes : GetTrace(n)
    \/ \E n \in Nodes : GetEdges(n)

SpecTrace == InitTrace /\ [][NextTrace]_vars

\* =================================================================== claims
\* m is n or a direct or transitive dependency of n.
RECURSIVE Reaches(_, _)
Reaches(n, m) ==
    n = m \/ \E i \in 1..Len(deps[n]) : Reaches(deps[n][i], m)

CallsOn(n) == {c \in CallIds : runTask[c] = n}

Settled(c) == runPromise[c].state = "fulfilled"

\* C1: however many run calls reach a task, directly or through the tasks
\* that depend on it, sequentially or overlapping, its compute is invoked at
\* most once.
C1_ComputeAtMostOnce == \A n \in Nodes : computeCalls[n] <= 1

\* Task a computed once although it was reached by a starting call, a call
\* that joined the execution in flight, and a call after it had settled.
C1_Witness ==
    /\ computeCalls[1] = 1
    /\ \E c \in CallsOn(1) : runPath[c] = "joined" /\ Settled(c)
    /\ \E c \in CallsOn(1) : runPath[c] = "cached"
    /\ \E c \in CallsOn(4) : Settled(c)

C3_FailFast ==
    microtasks = <<>> =>
        \A n \in Nodes : \A i \in 1..Len(deps[n]) :
            (Settled(<<n, i>>) /\ IsErr(runPromise[<<n, i>>].value)) =>
                /\ IsErr(_result[n])
                /\ \E j \in 1..Len(deps[n]) :
                       /\ Settled(<<n, j>>)
                       /\ _result[n] = runPromise[<<n, j>>].value

\* d is settled with b's Err while c is still executing: its compute has
\* been invoked and has not returned.
C3_Witness ==
    /\ microtasks = <<>>
    /\ _result[4] = err(2, ErrorOf(2))
    /\ runPromise[<<4, 2>>].state = "pending"
    /\ computePromise[3].state = "pending"
    /\ _result[3] = NoResult

\* C4 as stated: a task settled with an Err has run its compute exactly once
\* and every call on it returns that Err.
C4_FailedTaskComputedExactlyOnce ==
    \A c \in CallIds :
        (Settled(c) /\ IsErr(runPromise[c].value)) =>
            /\ _result[runTask[c]] = runPromise[c].value
            /\ computeCalls[runTask[c]] = 1

\* C4, amended: every run call on a task that has resolved with an Err
\* resolved with the one Err (payload and origin) the task holds as its
\* cached result, and the task's compute has run exactly once if the Err is
\* the task's own and never if the Err was forwarded from a dependency.
C4_FailedTaskNeverRecomputes ==
    \A c \in CallIds :
        (Settled(c) /\ IsErr(runPromise[c].value)) =>
            LET n == runTask[c]
                e == runPromise[c].value
            IN /\ _result[n] = e
               /\ computeCalls[n] = IF e.errorTask = n THEN 1 ELSE 0

\* Two calls from outside on the same failing task, the second one after the
\* task had settled: both returned the task's own Err, compute ran once.
C4_Witness ==
    \E n \in Nodes :
        /\ runTask[<<0, 1>>] = n /\ runTask[<<0, 2>>] = n
        /\ runPath[<<0, 1>>] = "started" /\ runPath[<<0, 2>>] = "cached"
        /\ Settled(<<0, 1>>) /\ Settled(<<0, 2>>)
        /\ runPromise[<<0, 2>>].value = err(n, ErrorOf(n))
        /\ computeCalls[n] = 1

\* A task whose execution returned at the check of cached dependency errors.
ShortCircuited(n) ==
    /\ Len(deps[n]) > 0
    /\ execPromise[n].state = "fulfilled"
    /\ race[n].state = "unset"

C5_Settles ==
    \A n \in Nodes :
        ShortCircuited(n) =>
            /\ computeCalls[n] = 0
            /\ \A i \in 1..Len(deps[n]) : runPromise[<<n, i>>].state = "unset"
            /\ \E i \in 1..Len(deps[n]) : execPromise[n].value = _result[deps[n][i]]
            /\ _result[n] # NoResult => _result[n] = execPromise[n].value
            /\ microtasks = <<>> => _result[n] = execPromise[n].value

C5_Step ==
    \A n \in Nodes :
        (/\ ~_promise[n]
         /\ _promise'[n]
         /\ \E i \in 1..Len(deps[n]) : IsErr(_result[deps[n][i]])) =>
            /\ execPromise'[n].state = "fulfilled"
            /\ \E i \in 1..Len(deps[n]) :
                   /\ IsErr(_result[deps[n][i]])
                   /\ execPromise'[n].value = _result[deps[n][i]]
            /\ computeCalls'[n] = computeCalls[n]
            /\ \A i \in 1..Len(deps[n]) :
                   /\ _promise'[deps[n][i]] = _promise[deps[n][i]]
                   /\ computeCalls'[deps[n][i]] = computeCalls[deps[n][i]]
                   /\ execPromise'[deps[n][i]] = execPromise[deps[n][i]]

\* C5: a step that starts the execution of a task one of whose dependencies
\* is already cached as an Err resolves the execution with that Err on the
\* spot, invokes neither the task's compute nor any dependency's, and starts
\* no dependency; the task is then settled with that Err unchanged and its
\* compute is never invoked.
C5_CachedErrShortCircuits == [](C5_Settles) /\ [][C5_Step]_vars

\* d settled with the Err cached in b; c was never started.
C5_Witness ==
    /\ ShortCircuited(4)
    /\ IsErr(_result[2])
    /\ _result[4] = _result[2]
    /\ ~_promise[3]
    /\ computeCalls[3] = 0
    /\ computeCalls[4] = 0

C7_Step ==
    \A n \in Nodes :
        (/\ ~_promise[n]
         /\ _promise'[n]
         /\ \A i \in 1..Len(deps[n]) : ~IsErr(_result[deps[n][i]])) =>
            \A i \in 1..Len(deps[n]) :
                /\ runPromise'[<<n, i>>].state # "unset"
                /\ runTask'[<<n, i>>] = deps[n][i]
                /\ _promise'[deps[n][i]] \/ _result'[deps[n][i]] # NoResult
                /\ ~_promise[deps[n][i]] => _result'[deps[n][i]] = NoResult

\* C7: the step that starts the execution of a task none of whose
\* dependencies is cached as an Err calls run on every one of its
\* dependencies: after the step each dependency is in flight or settled, and
\* none of those the step started has completed.
C7_DepsInitiatedTogether == [][C7_Step]_vars

\* b and c, the two dependencies of d, are executing at the same time.
C7_Witness ==
    /\ _promise[4]
    /\ computePromise[2].state = "pending"
    /\ computePromise[3].state = "pending"
    /\ _result[2] = NoResult /\ _result[3] = NoResult

\* The value of task n when every compute succeeds: its compute applied to
\* the values of deps[n][1], deps[n][2], ... in that order.
RECURSIVE Expected(_)
Expected(n) ==
    <<n>> \o Flatten([i \in 1..Len(deps[n]) |-> Expected(deps[n][i])])

\* C8: when every compute returns Ok, every run call resolves with Ok of the
\* value built from the dependencies' values in declaration order, and each
\* compute received argument i from deps[i], whatever the order in which the
\* dependencies completed.
C8_ValuesInDeclarationOrder ==
    (\A m \in Nodes : outcome[m] = "ok") =>
        /\ \A c \in CallIds :
               Settled(c) => runPromise[c].value = ok(Expected(runTask[c]))
        /\ \A n \in Nodes :
               /\ _result[n] # NoResult => _result[n] = ok(Expected(n))
               /\ computeCalls[n] > 0 =>
                      computeArgs[n] =
                          [i \in 1..Len(deps[n]) |-> Expected(deps[n][i])]

\* run(d) resolved with b's value before c's although c, whose compute
\* returns at once, completed before b, whose compute returns later.
C8_Witness ==
    /\ runTask[<<0, 1>>] = 4
    /\ runPromise[<<0, 1>>] = Fulfilled(ok(<<4, 2, 1, 3, 1>>))
    /\ latency[2] = "deferred"
    /\ latency[3] = "immediate"

\* C9: every run call on a task that has resolved resolved with the Result
\* cached in the task, so all of them with the same one, and at most one call
\* on a task started an execution: the others joined it or read the cache.
C9_CallsAgree ==
    /\ \A c \in CallIds : Settled(c) => runPromise[c].value = _result[runTask[c]]
    /\ \A n \in Nodes :
           Cardinality({c \in CallIds : runTask[c] = n /\ runPath[c] = "started"}) <= 1

\* Three calls on a: one started it, one joined it in flight, one came after
\* it had settled; all three resolved.
C9_Witness ==
    \E c1, c2, c3 \in CallsOn(1) :
        /\ runPath[c1] = "started" /\ Settled(c1)
        /\ runPath[c2] = "joined" /\ Settled(c2)
        /\ runPath[c3] = "cached" /\ Settled(c3)

C10_Inv ==
    \A n \in Nodes :
        /\ _result[n] # NoResult => _promise[n]
        /\ resultWrites[n] <= 1
        /\ resultWrites[n] = 0 <=> _result[n] = NoResult

C10_Step ==
    \A n \in Nodes :
        /\ _promise[n] => _promise'[n]
        /\ _result[n] # NoResult => _result'[n] = _result[n]
        /\ execPromise[n].state = "fulfilled" => execPromise'[n] = execPromise[n]

\* C10: a task's cache only moves forward: a settled task has its in-flight
\* handle, the handle once set stays set, _result is assigned at most once and
\* once assigned no step changes it.
C10_CacheMovesForward == [](C10_Inv) /\ [][C10_Step]_vars

\* A task settled by one assignment that has since been called again.
C10_Witness ==
    \E n \in Nodes :
        /\ resultWrites[n] = 1
        /\ _promise[n]
        /\ \E c \in CallsOn(n) : runPath[c] = "cached" /\ Settled(c)
        /\ calls = MaxCalls
\* The tasks with more than one dependency.
Joins == {n \in Nodes : \E g \in Graphs : Len(g[n]) > 1}

\* n settled before m did.
SettledBefore(n, m) ==
    \E k \in 1..Len(settleOrder) :
        /\ settleOrder[k] = n
        /\ \A j \in 1..k : settleOrder[j] # m

\* No compute that dependency call <<n, i>> relies on hangs.
ComputesTerminate(n) == \A m \in Nodes : Reaches(n, m) => latency[m] # "never"

\* n settled by fail-fast while its dependency i is still in flight.
C11_LeftBehind(n, i) ==
    /\ i <= Len(deps[n])
    /\ IsErr(_result[n])
    /\ race[n].state = "fulfilled"
    /\ race[n].value.type = "error"
    /\ runPromise[<<n, i>>].state = "pending"
    /\ _result[deps[n][i]] = NoResult
    /\ ComputesTerminate(deps[n][i])

C11_Caught(n, i) ==
    /\ i <= Len(deps[n])
    /\ _result[deps[n][i]] # NoResult
    /\ runPromise[<<n, i>>] = Fulfilled(_result[deps[n][i]])
    /\ IsErr(_result[n])

C11_Step ==
    \A n \in Nodes :
        IsErr(_result[n]) =>
            /\ _result'[n] = _result[n]
            /\ computeCalls'[n] = computeCalls[n]
            /\ execPromise'[n] = execPromise[n]

\* C11: a dependency still in flight when its parent settled Err by
\* fail-fast (which takes a task with several dependencies) eventually
\* settles, provided no compute it relies on hangs: its
\* Result is written to its own _result and resolves the parent's call on
\* it; no step changes the _result of a task settled Err, resolves its
\* execution again or invokes its compute.
C11_LateResultsCached ==
    /\ \A n \in Joins : \A i \in 1..MaxDeps :
           C11_LeftBehind(n, i) ~> C11_Caught(n, i)
    /\ [](\A n \in Nodes \ Joins : \A i \in 1..MaxDeps : ~C11_LeftBehind(n, i))
    /\ [][C11_Step]_vars

\* d settled with b's Err, c settled afterwards with its own Result.
C11_Witness ==
    /\ _result[4] = err(2, ErrorOf(2))
    /\ race[4] = Fulfilled([type |-> "error", idx |-> 1])
    /\ SettledBefore(4, 3)
    /\ _result[3] = ok(Apply(3, <<Apply(1, <<>>)>>))
    /\ runPromise[<<4, 2>>] = Fulfilled(_result[3])
\* ---------------------------------------------------------------- C12
\* Task n as task() built it: nothing started, computed or cached.
Unstarted(n) ==
    /\ ~_promise[n]
    /\ _result[n] = NoResult
    /\ computeCalls[n] = 0
    /\ execPromise[n] = Unset
    /\ computePromise[n] = Unset
    /\ race[n] = Unset

\* The tasks run was called on from outside so far.
Roots == {runTask[<<0, i>>] : i \in 1..calls}

C12_Inv ==
    \A n \in Nodes : (\A r \in Roots : ~Reaches(r, n)) => Unstarted(n)

C12_Step ==
    calls' = calls + 1 =>
        \A n \in Nodes :
            ~Reaches(runTask'[<<0, calls'>>], n) =>
                /\ _promise'[n] = _promise[n]
                /\ _result'[n] = _result[n]
                /\ computeCalls'[n] = computeCalls[n]
                /\ execPromise'[n] = execPromise[n]
                /\ computePromise'[n] = computePromise[n]
                /\ race'[n] = race[n]

\* C12: a task that no outside run call reaches through deps is as task()
\* built it (not started, compute not invoked, nothing cached), so before the
\* first call every task is; and the step of an outside call run(root) leaves
\* every task root does not reach exactly as it was.
C12_Lazy == [](C12_Inv) /\ [][C12_Step]_vars

\* run(b) has settled b and a; c and d, which b does not reach, are untouched.
C12_Witness ==
    /\ Roots = {2}
    /\ calls = MaxCalls
    /\ _result[2] # NoResult
    /\ _result[1] # NoResult
    /\ microtasks = <<>>
    /\ Unstarted(3)
    /\ Unstarted(4)
\* ---------------------------------------------------------------- C13
\* The top of the diamond: the task that depends on two tasks.
Top == CHOOSE n \in Nodes : Len(deps[n]) = 2

\* The shared ancestor: the one dependency of both dependencies of Top.
Ancestor == deps[deps[Top][1]][1]

\* m, a dependency of Top, was handed the Result cached in the ancestor: by
\* its run call on the ancestor, or by reading it as a cached Err.
Received(m) ==
    /\ _result[Ancestor] # NoResult
    /\ \/ runPromise[<<m, 1>>] = Fulfilled(_result[Ancestor])
       \/ ShortCircuited(m) /\ execPromise[m].value = _result[Ancestor]

TopSettled == \E c \in CallsOn(Top) : Settled(c)

\* C13 as stated: once a run call on d has resolved, a's compute has been
\* invoked exactly once and both b and c received a's Result.
C13_BothReceived ==
    TopSettled =>
        /\ computeCalls[Ancestor] = 1
        /\ \A i \in 1..Len(deps[Top]) : Received(deps[Top][i])

\* C13, amended: once a run call on d has resolved, a's compute has been
\* invoked exactly once and each of b and c whose execution was started
\* received a's Result; both of them did when d settled Ok and when run was
\* called from outside on d only.  (When d resolved with the cached Err of
\* one of them, the other one may never have been started.)
C13_SharedAncestorOnce ==
    TopSettled =>
        /\ computeCalls[Ancestor] = 1
        /\ \A i \in 1..Len(deps[Top]) :
               _promise[deps[Top][i]] => Received(deps[Top][i])
        /\ (IsOk(_result[Top]) \/ Roots = {Top}) =>
               \A i \in 1..Len(deps[Top]) : Received(deps[Top][i])

\* run(d) on the fresh diamond resolved Ok: b started a, c joined it, a was
\* computed once and b and c were both computed with a's value.
C13_Witness ==
    /\ Roots = {Top}
    /\ runPromise[<<0, 1>>] = Fulfilled(ok(Expected(Top)))
    /\ computeCalls[Ancestor] = 1
    /\ runPath[<<deps[Top][1], 1>>] = "started"
    /\ runPath[<<deps[Top][2], 1>>] = "joined"
    /\ \A i \in 1..Len(deps[Top]) :
           /\ Received(deps[Top][i])
           /\ computeArgs[deps[Top][i]] = <<ValueOf(_result[Ancestor])>>
\* ---------------------------------------------------------------- C14
\* The task all() built.
Combined == Len(Diamond)

\* C14: the task all(label, nodes) has exactly nodes as its deps; every run
\* call on it that resolved Ok carries the tuple of the nodes' values in the
\* order of nodes, every one that resolved Err carries, unchanged, the Err of
\* one of the nodes (never an Err of its own); and once the event loop has
\* run out of jobs the task is settled Ok if all its dependency calls
\* resolved Ok and settled Err if one of them resolved Err, whatever the
\* state of the others.
C14_AllOf ==
    /\ deps[Combined] = allArgs
    /\ \A c \in CallsOn(Combined) :
           Settled(c) =>
               LET r == runPromise[c].value
               IN /\ r = _result[Combined]
                  /\ IsOk(r) =>
                         /\ \A i \in 1..Len(allArgs) : IsOk(_result[allArgs[i]])
                         /\ r = ok([i \in 1..Len(allArgs) |->
                                       _result[allArgs[i]].value])
                  /\ IsErr(r) =>
                         /\ r.errorTask # Combined
                         /\ \E i \in 1..Len(allArgs) : r = _result[allArgs[i]]
                         /\ computeCalls[Combined] = 0
                         /\ computePromise[r.errorTask] = Fulfilled(r)
    /\ microtasks = <<>> =>
           /\ (\E i \in 1..Len(allArgs) :
                   Settled(<<Combined, i>>) /\ IsErr(runPromise[<<Combined, i>>].value))
                  => IsErr(_result[Combined])
           /\ (\A i \in 1..Len(allArgs) :
                   Settled(<<Combined, i>>) /\ IsOk(runPromise[<<Combined, i>>].value))
                  => IsOk(_result[Combined])

\* run(all(label, [c, b])) resolved with the tuple (c's value, b's value),
\* although b completed first.
C14_Witness ==
    /\ allArgs = <<3, 2>>
    /\ runTask[<<0, 1>>] = Combined
    /\ runPromise[<<0, 1>>] = Fulfilled(ok(<<Expected(3), Expected(2)>>))
    /\ SettledBefore(2, 3)
\* ---------------------------------------------------------------- C15
\* The compute of m never resolves the promise it returns.
Hung(m) == latency[m] = "never"

\* n is, or depends directly or transitively on, a task whose compute hangs.
NeedsHung(n) == \E m \in Nodes : Reaches(n, m) /\ Hung(m)

\* Nothing is owed: every started task that needs no hung task is settled,
\* and so is, with an Err, every task one of whose dependency calls resolved
\* to an Err.
C15_Progress ==
    /\ \A n \in Nodes : (_promise[n] /\ ~NeedsHung(n)) => _result[n] # NoResult
    /\ \A c \in CallIds :
           (runPromise[c].state = "pending" /\ ~NeedsHung(runTask[c])) => FALSE
    /\ \A n \in Nodes : \A i \in 1..Len(deps[n]) :
           (Settled(<<n, i>>) /\ IsErr(runPromise[<<n, i>>].value)) =>
               /\ IsErr(_result[n])
               /\ \A c \in CallsOn(n) : runPromise[c] = Fulfilled(_result[n])

\* A task that needs a hung task never settles Ok, and never settles at all
\* if every other compute it relies on succeeds.
C15_Stalled ==
    \A n \in Nodes :
        NeedsHung(n) =>
            /\ ~IsOk(_result[n])
            /\ \A c \in CallsOn(n) : ~IsOk(runPromise[c].value)
            /\ (\A m \in Nodes : (Reaches(n, m) /\ ~Hung(m)) => outcome[m] = "ok") =>
                   /\ _result[n] = NoResult
                   /\ \A c \in CallsOn(n) : ~Settled(c)

\* C15: when the compute of one task hangs, again and again (so, settling
\* being permanent, eventually for each of them) every started task that does
\* not need the hung task has settled and every task with a dependency call
\* resolved to Err has settled with an Err, a hung dependency notwithstanding;
\* a task that needs the hung task never settles Ok, and never settles when
\* all the other computes it relies on succeed.
C15_HungStallsOnlyDependents == [](C15_Stalled) /\ []<>C15_Progress

\* c hangs in its compute and b failed: d is settled with b's Err, a is
\* settled, c is pending for ever.
C15_Witness ==
    /\ Hung(3)
    /\ computePromise[3].state = "pending"
    /\ _result[3] = NoResult
    /\ IsOk(_result[1])
    /\ _result[2] = err(2, ErrorOf(2))
    /\ _result[4] = err(2, ErrorOf(2))
    /\ runPromise[<<0, 1>>] = Fulfilled(_result[4])
    /\ microtasks = <<>>
\* ---------------------------------------------------------------- C16
\* C16: a task's compute has been invoked only if every one of its
\* dependency calls had resolved Ok, and it received exactly their values; a
\* race won by the success branch has no dependency resolved to Err, so an
\* Err among the dependencies excludes any invocation of compute.
C16_ComputeAfterAllOk ==
    \A n \in Nodes :
        /\ computeCalls[n] > 0 =>
               \A i \in 1..Len(deps[n]) :
                   /\ Settled(<<n, i>>)
                   /\ IsOk(runPromise[<<n, i>>].value)
                   /\ computeArgs[n][i] = runPromise[<<n, i>>].value.value
                   /\ computeArgs[n][i] # Undefined
        /\ (race[n].state = "fulfilled" /\ race[n].value.type = "success") =>
               \A i \in 1..Len(deps[n]) : IsOk(runPromise[<<n, i>>].value)
        /\ (\E i \in 1..Len(deps[n]) : IsErr(runPromise[<<n, i>>].value)) =>
               computeCalls[n] = 0

\* b resolved Ok first and its contestant went on to Promise.all, c then
\* resolved Err: the contestant of b completed its success branch, yet the
\* race was won by the error and d's compute was not invoked.
C16_Witness ==
    /\ SettledBefore(2, 3)
    /\ IsOk(_result[2])
    /\ contestant[4][1] = "success"
    /\ contestant[4][2] = "error"
    /\ race[4] = Fulfilled([type |-> "error", idx |-> 2])
    /\ _result[4] = err(3, ErrorOf(3))
    /\ computeCalls[4] = 0
\* ---------------------------------------------------------------- C17
\* The dependencies of n that are settled as Err.
FailedDeps(n) == {i \in 1..Len(deps[n]) : IsErr(_result[deps[n][i]])}

\* The position of m in the order of settling.
SettlePos(m) == CHOOSE k \in 1..Len(settleOrder) : settleOrder[k] = m

\* Among the failed dependencies of n, the one that settled first.
FirstFailed(n) ==
    CHOOSE i \in FailedDeps(n) :
        \A j \in FailedDeps(n) : SettlePos(deps[n][i]) <= SettlePos(deps[n][j])

\* C17 as stated: a task settled with a dependency's Err, several of whose
\* dependencies failed, holds the Err of the one that failed first.
C17_FirstFailedDependencyWins ==
    \A n \in Nodes :
        (/\ IsErr(_result[n])
         /\ _result[n].errorTask # n
         /\ Cardinality(FailedDeps(n)) > 1) =>
            _result[n] = _result[deps[n][FirstFailed(n)]]

C17_Inv ==
    \A n \in Nodes :
        /\ firstErr[n] # 0 =>
               LET e == runPromise[<<n, firstErr[n]>>].value
               IN /\ IsErr(e)
                  /\ race[n].state = "fulfilled" => race[n].value.idx = firstErr[n]
                  /\ execPromise[n].state = "fulfilled" => execPromise[n].value = e
                  /\ _result[n] # NoResult => _result[n] = e
                  /\ microtasks = <<>> => _result[n] = e
                  /\ computeCalls[n] = 0
        /\ ShortCircuited(n) =>
               /\ firstErr[n] = 0
               /\ _result[n] # NoResult => _result[n] = execPromise[n].value

C17_Step ==
    \A n \in Nodes :
        /\ (~_promise[n] /\ _promise'[n] /\ FailedDeps(n) # {}) =>
               \E i \in FailedDeps(n) :
                   /\ \A j \in FailedDeps(n) : i <= j
                   /\ execPromise'[n] = Fulfilled(_result[deps[n][i]])
        /\ IsErr(_result[n]) => _result'[n] = _result[n]
        /\ firstErr[n] # 0 => firstErr'[n] = firstErr[n]

\* C17, amended: a task whose dependency calls were made settles with the
\* Err, unchanged, of the first of those calls to resolve to an Err, and its
\* compute is not invoked; a task started while dependencies are already
\* cached as Err settles with the Err of the first of these in declaration
\* order, whichever failed first; no later failure changes either.
C17_FirstErrWins == [](C17_Inv) /\ [][C17_Step]_vars

\* Task 4 raced: b failed first and 4 settled with b's Err; a failed later
\* and is cached, 4 is unchanged.  Task 3, started after both had failed,
\* holds the Err of a, the first in declaration order.
C17_Witness ==
    /\ firstErr[4] = 2
    /\ _result[4] = err(2, ErrorOf(2))
    /\ SettledBefore(4, 1)
    /\ _result[1] = err(1, ErrorOf(1))
    /\ ShortCircuited(3)
    /\ _result[3] = err(1, ErrorOf(1))
\* ---------------------------------------------------------------- C18
\* The run calls on n that found it unstarted and began an execution.
Starters(n) == {c \in CallIds : runTask[c] = n /\ runPath[c] = "started"}

C18_Inv ==
    \A n \in Nodes :
        /\ Cardinality(Starters(n)) = IF _promise[n] THEN 1 ELSE 0
        /\ execPromise[n].state # "unset" <=> _promise[n]
        /\ computeCalls[n] > 0 => _promise[n]

C18_Step ==
    \A n \in Nodes :
        (~_promise[n] /\ _promise'[n]) =>
            /\ \A i \in 1..Len(deps[n]) :
                   runPath'[<<n, i>>] # "none" =>
                       /\ runTask'[<<n, i>>] = deps[n][i]
                       /\ runTask'[<<n, i>>] # n
                       /\ ~Reaches(runTask'[<<n, i>>], n)
            /\ \A c \in CallIds :
                   (runPath[c] = "none" /\ runTask'[c] = n) =>
                       runPath'[c] \in {"started", "joined"}

\* C18: in every state a caller or a job can observe, a task whose execution
\* has begun has its handle stored and exactly one run call ever found it
\* unstarted; the calls its execution makes before the handle is stored are
\* calls on its dependencies, none of which reaches the task, and every other
\* call on the task made in the same step joins the execution.
C18_CheckThenSet == [](C18_Inv) /\ [][C18_Step]_vars

\* Two overlapping outside calls on d: the first started d and, before d's
\* handle was stored, b, c and a; c's call on a and the second call on d
\* found the executions in flight.
C18_Witness ==
    /\ runTask[<<0, 1>>] = 4 /\ runPath[<<0, 1>>] = "started"
    /\ runTask[<<0, 2>>] = 4 /\ runPath[<<0, 2>>] = "joined"
    /\ runPath[<<4, 1>>] = "started" /\ runPath[<<4, 2>>] = "started"
    /\ runPath[<<2, 1>>] = "started" /\ runPath[<<3, 1>>] = "joined"
    /\ \A n \in Nodes : Cardinality(Starters(n)) = 1
    /\ Settled(<<0, 2>>)
\* ---------------------------------------------------------------- C19
\* The call made by this step from outside, if the step is such a call.
NewCall == <<0, calls + 1>>

C19_Step ==
    /\ (calls' = calls + 1 /\ _result[runTask'[NewCall]] # NoResult) =>
           /\ runPromise'[NewCall] = Fulfilled(_result[runTask'[NewCall]])
           /\ runPath'[NewCall] = "cached"
           /\ \A c \in CallIds \ {NewCall} :
                  /\ runPromise'[c] = runPromise[c]
                  /\ runTask'[c] = runTask[c]
                  /\ runPath'[c] = runPath[c]
           /\ UNCHANGED <<_promise, _result, execPromise, computePromise,
                          contestant, allRemaining, race, microtasks,
                          computeCalls, computeArgs, resultWrites>>
    /\ \A c \in CallIds :
           (/\ runPath[c] = "none"
            /\ runPath'[c] # "none"
            /\ _result[runTask'[c]] # NoResult) =>
               /\ runPath'[c] = "cached"
               /\ runPromise'[c] = Fulfilled(_result[runTask'[c]])
               /\ _result'[runTask'[c]] = _result[runTask'[c]]
               /\ execPromise'[runTask'[c]] = execPromise[runTask'[c]]
               /\ computeCalls'[runTask'[c]] = computeCalls[runTask'[c]]

C20_AllSettled ==
    /\ \A c \in CallIds : runPromise[c].state # "pending"
    /\ \A n \in Nodes :
           _promise[n] =>
               /\ _result[n] # NoResult
               /\ execPromise[n].state = "fulfilled"
               /\ computePromise[n].state # "pending"
    /\ microtasks = <<>>

\* C20: on the acyclic diamond with computes that all return, provided the
\* event loop keeps running jobs, again and again nothing is outstanding; as
\* resolved calls and settled tasks stay so, every run call made and every
\* task started eventually settles, whatever calls are made meanwhile.
C20_Terminates == []<>C20_AllSettled

\* Two overlapping calls on d with every compute resolving late: all four
\* tasks and all calls have settled.
C20_Witness ==
    /\ C20_AllSettled
    /\ \A n \in Nodes : latency[n] = "deferred" /\ _result[n] # NoResult
    /\ runTask[<<0, 1>>] = 4 /\ runPath[<<0, 1>>] = "started"
    /\ runTask[<<0, 2>>] = 4 /\ runPath[<<0, 2>>] = "joined"
    /\ runPromise[<<0, 2>>] = Fulfilled(_result[4])

\* The tasks whose own compute returned the Err r.
Producers(r) == {x \in Nodes : computePromise[x] = Fulfilled(r)}

\* C22: whenever a task is settled with an Err that another task produced,
\* or a run call is resolved with an Err, the task whose own compute returned
\* that Err is already settled with the identical Err; where the Err was
\* built with the helper, that task is the one the Err names as its origin.
C22_OriginSettledFirst ==
    /\ \A n \in Nodes :
         IsErr(_result[n]) =>
             \E x \in Producers(_result[n]) :
                 /\ Reaches(n, x)
                 /\ _result[x] = _result[n]
                 /\ outcome[x] = "err" => _result[n].errorTask = x
    /\ \A c \in CallIds :
         (Settled(c) /\ IsErr(runPromise[c].value)) =>
             \E x \in Producers(runPromise[c].value) :
                 _result[x] = runPromise[c].value

\* The Err of a is cached in a, in b or c, and in d, which never computed.
C22_Witness ==
    /\ outcome[1] = "err"
    /\ _result[1] = err(1, ErrorOf(1))
    /\ _result[4] = _result[1]
    /\ \E m \in {2, 3} : _result[m] = _result[1]
    /\ computeCalls[4] = 0

\* The compute of n was invoked and throws, when called or later.
Faulted(n) == outcome[n] \in {"throw", "throwSync"} /\ computeCalls[n] > 0

\* Every run call on n failed with the exception e.
CallsFailWith(n, e) == \A c \in CallsOn(n) : runPromise[c] = Rejected(e)

\* C23: a task whose compute throws is never settled and no Result is ever
\* produced for it, its in-flight handle stays set and its compute is not
\* invoked again: every run call on it fails with the exception.  A task
\* that was awaiting it when it failed fails with the same exception without
\* computing or being settled; one whose race had already been won by the
\* Err of another dependency is settled with that Err.
C23_FaultPropagates ==
    /\ \A n \in Nodes :
         Faulted(n) =>
             /\ _result[n] = NoResult
             /\ _promise[n]
             /\ computeCalls[n] = 1
             /\ execPromise[n].state # "fulfilled"
             /\ execPromise[n].state = "rejected" => execPromise[n].fault = Thrown(n)
             /\ \A c \in CallsOn(n) :
                    /\ runPromise[c].state # "fulfilled"
                    /\ runPromise[c].state = "rejected" =>
                           runPromise[c].fault = Thrown(n)
             /\ (microtasks = <<>> /\ computePromise[n].state # "pending") =>
                    CallsFailWith(n, Thrown(n))
    /\ \A m \in Nodes : \A i \in 1..Len(deps[m]) :
         (microtasks = <<>> /\ runPromise[<<m, i>>].state = "rejected") =>
             \/ /\ race[m].state = "rejected"
                /\ \E j \in 1..Len(deps[m]) :
                       runPromise[<<m, j>>] = Rejected(race[m].fault)
                /\ execPromise[m] = Rejected(race[m].fault)
                /\ CallsFailWith(m, race[m].fault)
                /\ _result[m] = NoResult
                /\ _promise[m]
                /\ computeCalls[m] = 0
             \/ /\ race[m].state = "fulfilled"
                /\ race[m].value.type = "error"
                /\ IsErr(_result[m])

\* The compute of a threw: run(d) failed with that exception, a later run(a)
\* joined the rejected execution and failed the same way, and a computed
\* once.
C23_Witness ==
    /\ outcome[1] = "throw"
    /\ runTask[<<0, 1>>] = 4
    /\ runPromise[<<0, 1>>] = Rejected(Thrown(1))
    /\ runTask[<<0, 2>>] = 1
    /\ runPath[<<0, 2>>] = "joined"
    /\ runPromise[<<0, 2>>] = Rejected(Thrown(1))
    /\ computeCalls[1] = 1
    /\ \A n \in Nodes : _result[n] = NoResult

\* n depends on m through at most k deps.
RECURSIVE DependsWithin(_, _, _)
DependsWithin(n, m, k) ==
    /\ k > 0
    /\ \E i \in 1..Len(deps[n]) :
           deps[n][i] = m \/ DependsWithin(deps[n][i], m, k - 1)

\* The tasks that depend on themselves.
OnCycle == {n \in Nodes : taskOf[n] = n /\ DependsWithin(n, n, Len(Diamond))}

\* Nothing is left to run: no job is queued and no compute is pending.
Quiescent ==
    /\ microtasks = <<>>
    /\ \A n \in Nodes : computePromise[n].state # "pending"

\* C21 as stated: a run call on a task of a cycle never completes, and no
\* task of a cycle is ever settled.
C21_NeverSettles ==
    /\ \A c \in CallIds :
         runTask[c] \in OnCycle => runPromise[c].state = "pending"
    /\ \A n \in OnCycle : _result[n] = NoResult

\* C21, amended: the cycle is not detected, a task of a cycle is entered
\* again while it is being executed and its compute is never invoked.  A run
\* call on it does complete: it fails with the RangeError of the exhausted
\* call stack, unless a dependency outside the cycle failed, in which case
\* the call resolves with that dependency's Err and the task is settled with
\* it.  A task of a cycle is never settled with an Ok.
C21_CycleOverflows ==
    /\ \A e \in Nodes : taskOf[e] \in OnCycle => computeCalls[e] = 0
    /\ \A n \in OnCycle :
         /\ ~IsOk(_result[n])
         /\ IsErr(_result[n]) =>
                \E m \in Nodes \ OnCycle :
                    /\ taskOf[m] = m
                    /\ outcome[m] = "err"
                    /\ _result[m] = _result[n]
    /\ \A c \in CallIds :
         runTask[c] \in OnCycle =>
             /\ runPromise[c].state = "fulfilled" =>
                    /\ IsErr(runPromise[c].value)
                    /\ runPromise[c].value = _result[runTask[c]]
             /\ runPromise[c].state = "rejected" =>
                    runPromise[c].fault = StackOverflow
             /\ Quiescent => runPromise[c].state # "pending"
             /\ (Quiescent /\ \A m \in Nodes : outcome[m] # "err") =>
                    /\ runPromise[c] = Rejected(StackOverflow)
                    /\ _result[runTask[c]] = NoResult

\* On the two-task cycle, run(1) entered task 1 a second time, three calls
\* deep, where the stack was exhausted; the call failed with the RangeError
\* and neither task is settled.
C21_Witness ==
    /\ taskOf = TwoCycle.taskOf
    /\ runTask[<<0, 1>>] = 1
    /\ runPromise[<<0, 1>>] = Rejected(StackOverflow)
    /\ runTask[<<2, 1>>] = 1
    /\ runExec[<<2, 1>>] = 3
    /\ execPromise[3] = Rejected(StackOverflow)
    /\ handle[1] = 1
    /\ \A n \in Nodes : _result[n] = NoResult

\* The tasks reachable from n through deps, n included.
ReachSet(n) == {m \in Nodes : Reaches(n, m)}

\* The ways of listing every element of S exactly once.
Orders(S) ==
    {o \in [1..Cardinality(S) -> S] :
        \A j, k \in 1..Cardinality(S) : o[j] = o[k] => j = k}

EdgesFrom(n) ==
    {e \in Nodes \X (1..Len(Diamond)) : e[1] \in ReachSet(n) /\ e[2] <= Len(deps[e[1]])}

\* C25: getEdges(n) holds exactly one pair (label of the dependency, label
\* of the dependent) for every dependency edge reachable from n: the pairs
\* are the edges listed once each, so a task that k tasks depend on is the
\* dependency in k pairs.
C25_OnePairPerEdge ==
    lastEdges.task # 0 =>
        LET n == lastEdges.task
            edges == lastEdges.edges
            E == EdgesFrom(n)
        IN /\ Len(edges) = Cardinality(E)
           /\ \E o \in Orders(E) :
                  \A k \in 1..Len(edges) :
                      edges[k] = <<label[deps[o[k][1]][o[k][2]]], label[o[k][1]]>>
           /\ \A m \in ReachSet(n) :
                  Cardinality({k \in 1..Len(edges) : edges[k][1] = label[m]})
                      >= Cardinality({e \in E : deps[e[1]][e[2]] = m})

\* The edges of d in Shared: b is the dependency of c and of d and is in two
\* pairs, and b's own edge from a is listed once although b is reached
\* twice.
C25_Witness ==
    /\ deps = Shared
    /\ label = Names
    /\ lastEdges = [task |-> 4,
                    edges |-> << <<"b", "d">>, <<"a", "b">>, <<"c", "d">>,
                                 <<"b", "c">> >>]
====
